---- MODULE Spec2Model ----
(***************************************************************************)
(* adaptnlp/translation.py: TransformersTranslator (load, predict,         *)
(* _tokenize) and the caching facade EasyTranslator (translate).           *)
(*                                                                         *)
(* Strings are sequences of character codes.  A `text` argument is a       *)
(* record [kind, val]: kind "str" with val a string, or kind "list" with   *)
(* val a sequence of strings (Python's Union[List[str], str]).             *)
(* The pretrained tokenizer and model are third-party objects; they are    *)
(* represented by deterministic stand-ins (character-level tokenizer, a    *)
(* per-model rewriting of the token row) that keep distinct inputs         *)
(* distinct, so that order, batching and argument passing are observable.  *)
(***************************************************************************)
EXTENDS Integers, Sequences, FiniteSets, TLC

\* ---------------------------------------------------------------- bounds
MaxCalls == 3
MaxTexts == 3
MaxBatch == 2

\* tokenizer.batch_encode_plus(max_length=512, pad_to_max_length=True)
TokMaxLength == 512

\* ---------------------------------------------------------------- inputs
ModelNames == {"t5-small", "bart-large"}

\* "a", "bc"
Strs == {<<97>>, <<98, 99>>}

\* "de", "fr"
Prefixes == {<<100, 101>>, <<102, 114>>}

TextLists == UNION {[1..n -> Strs] : n \in 1..MaxTexts}

TextInputs == {[kind |-> "str", val |-> s] : s \in Strs}
                \cup {[kind |-> "list", val |-> l] : l \in TextLists}

BatchSizes == 1..MaxBatch

\* (num_beams, min_length, max_length, early_stopping, **kwargs): the
\* defaults of the signature and one setting that differs in every field.
GenArgSets ==
    { [num_beams |-> 1, min_length |-> 0, max_length |-> 128,
       early_stopping |-> TRUE, kwargs |-> {}],
      [num_beams |-> 4, min_length |-> 1, max_length |-> 3,
       early_stopping |-> FALSE, kwargs |-> {<<"do_sample", "on">>}] }

\* ------------------------------------------------------------- utilities
Min(a, b) == IF a < b THEN a ELSE b

CeilDiv(n, b) == (n + b - 1) \div b

Take(s, n) == SubSeq(s, 1, Min(Len(s), n))

Reverse(s) == [i \in 1..Len(s) |-> s[Len(s) + 1 - i]]

RECURSIVE Flatten(_)
Flatten(ss) == IF ss = <<>> THEN <<>> ELSE Head(ss) \o Flatten(Tail(ss))

\* ------------------------------------------------- third-party stand-ins
\* AutoModelWithLMHead.from_pretrained: the class of the model a name loads.
ModelClass(model_name_or_path) ==
    IF model_name_or_path = "t5-small"
    THEN "T5ForConditionalGeneration"
    ELSE "BartForConditionalGeneration"

\* torch.device("cuda" if torch.cuda.is_available() else "cpu")
Device(cuda_available) == IF cuda_available THEN "cuda" ELSE "cpu"

\* One row of tokenizer.batch_encode_plus(..., max_length=512,
\* pad_to_max_length=True, add_special_tokens=True): the character codes,
\* cut to leave room for the end-of-sequence token 1, then padding 0 up to
\* max_length.  A padded row is kept run-length encoded: `ids` are the
\* tokens before the padding, `pad` the number of padding tokens after them.
EncodeRow(t) ==
    LET ids == Take(t, TokMaxLength - 1) \o <<1>>
    IN  [ids |-> ids, pad |-> TokMaxLength - Len(ids)]

MaskRow(t) ==
    LET row == EncodeRow(t)
    IN  [ones |-> Len(row.ids), zeros |-> row.pad]

TypeRow(t) == [zeros |-> TokMaxLength]

\* tokenizer.batch_encode_plus(text, return_tensors="pt", ...)
BatchEncodePlus(text) ==
    [input_ids      |-> [device |-> "cpu", rows |-> [i \in DOMAIN text |-> EncodeRow(text[i])]],
     attention_mask |-> [device |-> "cpu", rows |-> [i \in DOMAIN text |-> MaskRow(text[i])]],
     token_type_ids |-> [device |-> "cpu", rows |-> [i \in DOMAIN text |-> TypeRow(text[i])]]]

\* Tensor.to(device)
To(t, device) == [t EXCEPT !.device = device]

\* The sequence model.generate produces for one input row: the decoder
\* start token 0, the row's tokens rewritten by the model (reversed by the
\* T5 stand-in, shifted by one by the other), the end token 1, cut to
\* max_length tokens.
GenerateRow(model_class, row, max_length) ==
    LET toks == SelectSeq(row.ids, LAMBDA x : x > 1)
        body == IF model_class = "T5ForConditionalGeneration"
                THEN Reverse(toks)
                ELSE [i \in DOMAIN toks |-> toks[i] + 1]
    IN  Take(<<0>> \o body \o <<1>>, max_length)

\* model.generate(input_ids, num_beams=..., ...): one sequence per input row.
Generate(model_class, input_ids, gen_kwargs) ==
    [i \in DOMAIN input_ids.rows |->
        GenerateRow(model_class, input_ids.rows[i], gen_kwargs.max_length)]

\* tokenizer.decode(o, skip_special_tokens=True,
\*                  clean_up_tokenization_spaces=False)
Decode(o) == SelectSeq(o, LAMBDA x : x > 1)

\* ------------------------------------------------ TransformersTranslator
\* The wrapper object: its identity, the name its tokenizer and model were
\* loaded from, and the device the model was moved to.
\* TransformersTranslator.load / __init__
NewTranslator(id, model_name_or_path, cuda_available) ==
    [id |-> id, name |-> model_name_or_path, device |-> Device(cuda_available)]

\* The model class test left out: every model treated as T5.
IsT5_any(self) == TRUE

\* isinstance(self.model, T5ForConditionalGeneration)
IsT5(self) == ModelClass(self.name) = "T5ForConditionalGeneration"

\* A str left as it is: iterating it yields its characters.
AsList_unwrapped(text) ==
    IF text.kind = "str"
    THEN [i \in DOMAIN text.val |-> <<text.val[i]>>]
    ELSE text.val

\* if isinstance(text, str): text = [text]
AsList(text) == IF text.kind = "str" THEN <<text.val>> ELSE text.val

\* text = [f"{t5_prefix}: {t}" for t in text]   (": " is 58, 32)
AddPrefix(self, t5_prefix, text) ==
    IF IsT5(self)
    THEN [i \in DOMAIN text |-> t5_prefix \o <<58, 32>> \o text[i]]
    ELSE text

\* _tokenize: the TensorDataset, a tuple of tensors with one row per text.
_tokenize(self, text) ==
    LET tokenized_text == BatchEncodePlus(text)
    IN  IF IsT5(self)
        THEN <<tokenized_text.input_ids, tokenized_text.attention_mask,
               tokenized_text.token_type_ids>>
        ELSE <<tokenized_text.input_ids, tokenized_text.attention_mask>>

\* len(dataset)
DatasetLen(dataset) == Len(dataset[1].rows)

\* A DataLoader built with drop_last=True: the incomplete batch is lost.
DataLoader_drop_last(dataset, batch_size) ==
    LET n == DatasetLen(dataset)
    IN  [k \in 1..(n \div batch_size) |->
            [j \in DOMAIN dataset |->
                [dataset[j] EXCEPT
                    !.rows = SubSeq(@, (k - 1) * batch_size + 1, k * batch_size)]]]

\* DataLoader(dataset, batch_size=mini_batch_size): sequential sampling, the
\* last incomplete batch kept (shuffle=False, drop_last=False defaults).
\* The k-th batch is the tuple of the tensors' slices.
DataLoader(dataset, batch_size) ==
    LET n == DatasetLen(dataset)
    IN  [k \in 1..CeilDiv(n, batch_size) |->
            [j \in DOMAIN dataset |->
                [dataset[j] EXCEPT
                    !.rows = SubSeq(@, (k - 1) * batch_size + 1,
                                    Min(k * batch_size, n))]]]

\* batch = tuple(t.to(self.device) for t in batch)
BatchTo(batch, device) == [j \in DOMAIN batch |-> To(batch[j], device)]

\* inputs = {"input_ids": batch[0], "attention_masks": batch[1], ...}
Inputs(batch) ==
    IF Len(batch) = 3
    THEN [input_ids |-> batch[1], attention_masks |-> batch[2],
          token_type_ids |-> batch[3]]
    ELSE [input_ids |-> batch[1], attention_masks |-> batch[2]]

\* The keyword arguments predict hands to self.model.generate.
GenerateKwargs(pargs) ==
    [num_beams |-> pargs.num_beams, min_length |-> pargs.min_length,
     max_length |-> pargs.max_length, early_stopping |-> pargs.early_stopping,
     kwargs |-> pargs.kwargs]

\* One self.model.generate call as seen by the model object.
GenerateCall(self, inputs, pargs) ==
    [model |-> self.id, input_ids |-> inputs.input_ids,
     gen_kwargs |-> GenerateKwargs(pargs)]

\* for o in outputs: translations.append([decode(o)].pop())
DecodeOutputs(outputs) == [i \in DOMAIN outputs |-> Decode(outputs[i])]

\* The batch's translations put in front of the earlier ones.
AppendTranslations_front(translations, decoded) == decoded \o translations

\* translations after the decoded outputs of a batch are appended
AppendTranslations(translations, decoded) == translations \o decoded

\* The loop of predict over the batches from the k-th on.
RECURSIVE PredictLoop(_, _, _, _, _, _)
PredictLoop(self, batches, k, pargs, translations, calls) ==
    IF k > Len(batches)
    THEN [translations |-> translations, calls |-> calls]
    ELSE LET batch == BatchTo(batches[k], self.device)
             inputs == Inputs(batch)
             outputs == Generate(ModelClass(self.name), inputs.input_ids,
                                 GenerateKwargs(pargs))
         IN  PredictLoop(self, batches, k + 1, pargs,
                         AppendTranslations(translations, DecodeOutputs(outputs)),
                         Append(calls, GenerateCall(self, inputs, pargs)))

\* TransformersTranslator.predict as a function of its arguments: the list
\* it returns and the generate calls it makes.
predict(self, pargs) ==
    LET text == AddPrefix(self, pargs.t5_prefix, AsList(pargs.text))
        dataset == _tokenize(self, text)
        dataloader == DataLoader(dataset, pargs.mini_batch_size)
    IN  PredictLoop(self, dataloader, 1, pargs, <<>>, <<>>)

\* -------------------------------------------------------- EasyTranslator
\* defaultdict(bool): the value a missing key gets, bool() = False.  False
\* is written as the translator record with id 0; real wrappers have id > 0.
NoTranslator == [id |-> 0, name |-> "", device |-> ""]

\* Truth value of a dict entry: False is falsy, a wrapper object is truthy.
Truthy(v) == v.id # 0

\* self.translators = defaultdict(bool)
EmptyDict == [n \in {} |-> NoTranslator]

\* Evaluating self.translators[key]: a missing key is inserted with False.
Lookup(d, key) == IF key \in DOMAIN d THEN d ELSE d @@ (key :> NoTranslator)

\* The cache test left out: every call loads.
CacheMiss_always(d, model_name_or_path) == TRUE

\* if not self.translators[model_name_or_path]
CacheMiss(d, model_name_or_path) == ~Truthy(d[model_name_or_path])

\* load called with the default name instead of the requested one.
LoadKey_default(model_name_or_path) == "t5-small"

\* The argument of TransformersTranslator.load(model_name_or_path)
LoadKey(model_name_or_path) == model_name_or_path

\* The dict rebuilt with the new entry alone.
CacheStore_reset(d, model_name_or_path, w) == (model_name_or_path :> w)

\* self.translators[model_name_or_path] = <the loaded wrapper>
CacheStore(d, model_name_or_path, w) == [d EXCEPT ![model_name_or_path] = w]

\* max_length and **kwargs not passed on: predict falls back to its defaults.
ForwardArgs_partial(c) ==
    [text |-> c.text, t5_prefix |-> c.t5_prefix,
     mini_batch_size |-> c.mini_batch_size, num_beams |-> c.num_beams,
     min_length |-> c.min_length, max_length |-> 128,
     early_stopping |-> c.early_stopping, kwargs |-> {}]

\* translator.predict(text=text, t5_prefix=t5_prefix, ..., **kwargs)
ForwardArgs(c) ==
    [text |-> c.text, t5_prefix |-> c.t5_prefix,
     mini_batch_size |-> c.mini_batch_size, num_beams |-> c.num_beams,
     min_length |-> c.min_length, max_length |-> c.max_length,
     early_stopping |-> c.early_stopping, kwargs |-> c.kwargs]

\* ------------------------------------------------------------------ state
VARIABLES
    cuda,         \* torch.cuda.is_available() of the process
    translators,  \* EasyTranslator.translators
    nextId,       \* identity of the next TransformersTranslator object
    calls,        \* translate calls made so far
    named,        \* per name: translate calls naming it
    loadCalls,    \* per name: TransformersTranslator.load invocations
    loadFails,    \* per name: load invocations that raised
    pc,           \* position of the running translate call
    call,         \* arguments of the running translate call
    translator,   \* translate's local `translator`
    pargs,        \* arguments predict received
    text,         \* predict's local `text`
    dataset,      \* predict's local `dataset`
    k,            \* number of the batch the loop is at
    batch,        \* predict's local `batch`
    outputs,      \* predict's local `outputs`
    translations, \* predict's local `translations`
    genCalls,     \* self.model.generate calls of the running call
    log,          \* steps of the running call, in order
    result,       \* value predict returned
    returned      \* value translate returned

vars == <<cuda, translators, nextId, calls, named, loadCalls, loadFails, pc, call,
          translator, pargs, text, dataset, k, batch, outputs, translations,
          genCalls, log, result, returned>>

cacheVars == <<cuda, translators, nextId, calls, named, loadCalls, loadFails>>

None == [none |-> TRUE]

\* The locals of a translate call that is not running.
NoFrame ==
    /\ call = None /\ translator = None /\ pargs = None
    /\ text = <<>> /\ dataset = <<>> /\ k = 0 /\ batch = <<>>
    /\ outputs = <<>> /\ translations = <<>> /\ genCalls = <<>>
    /\ log = <<>> /\ result = <<>> /\ returned = <<>>

\* EasyTranslator(): an empty cache, nothing loaded, no call running.
Init ==
    /\ cuda \in BOOLEAN
    /\ translators = EmptyDict
    /\ nextId = 1
    /\ calls = 0
    /\ named = [n \in ModelNames |-> 0]
    /\ loadCalls = [n \in ModelNames |-> 0]
    /\ loadFails = [n \in ModelNames |-> 0]
    /\ pc = "idle"
    /\ NoFrame

\* EasyTranslator.translate up to the call of translator.predict: the cache
\* lookup, the load on a miss (which returns a new wrapper or raises), and
\* the binding of predict's parameters.
translate(txt, model_name_or_path, t5_prefix, mini_batch_size, ga) ==
    /\ pc = "idle"
    /\ calls < MaxCalls
    /\ calls' = calls + 1
    /\ named' = [named EXCEPT ![model_name_or_path] = @ + 1]
    /\ call' = [text |-> txt, model_name_or_path |-> model_name_or_path,
                t5_prefix |-> t5_prefix, mini_batch_size |-> mini_batch_size,
                num_beams |-> ga.num_beams, min_length |-> ga.min_length,
                max_length |-> ga.max_length,
                early_stopping |-> ga.early_stopping, kwargs |-> ga.kwargs]
    /\ LET d == Lookup(translators, model_name_or_path)
           key == LoadKey(model_name_or_path)
           w == NewTranslator(nextId, key, cuda)
       IN  \/ /\ ~CacheMiss(d, model_name_or_path)
              /\ translators' = d
              /\ translator' = d[model_name_or_path]
              /\ pargs' = ForwardArgs(call')
              /\ pc' = "predict"
              /\ log' = <<>>
              /\ UNCHANGED <<nextId, loadCalls, loadFails>>
           \/ /\ CacheMiss(d, model_name_or_path)
              /\ translators' = CacheStore(d, model_name_or_path, w)
              /\ translator' = translators'[model_name_or_path]
              /\ pargs' = ForwardArgs(call')
              /\ nextId' = nextId + 1
              /\ loadCalls' = [loadCalls EXCEPT ![key] = @ + 1]
              /\ pc' = "predict"
              /\ log' = <<"load">>
              /\ UNCHANGED loadFails
           \/ /\ CacheMiss(d, model_name_or_path)
              /\ translators' = d
              /\ loadCalls' = [loadCalls EXCEPT ![key] = @ + 1]
              /\ loadFails' = [loadFails EXCEPT ![key] = @ + 1]
              /\ pc' = "raised"
              /\ log' = <<"load">>
              /\ UNCHANGED <<nextId, translator, pargs>>
    /\ UNCHANGED <<cuda, text, dataset, k, batch, outputs, translations,
                   genCalls, result, returned>>

\* predict: the input made a list, the T5 prefix, _tokenize, the DataLoader,
\* translations = [].
PredictTokenize ==
    /\ pc = "predict"
    /\ text' = AddPrefix(translator, pargs.t5_prefix, AsList(pargs.text))
    /\ dataset' = _tokenize(translator, text')
    /\ translations' = <<>>
    /\ k' = 1
    /\ log' = Append(log, "tokenize")
    /\ pc' = "loop"
    /\ UNCHANGED <<cacheVars, call, translator, pargs, batch, outputs,
                   genCalls, result, returned>>

\* self.model.eval() hoisted out of the loop: it runs for the first batch only.
PredictEval_once ==
    /\ pc = "loop"
    /\ k <= Len(DataLoader(dataset, pargs.mini_batch_size))
    /\ batch' = BatchTo(DataLoader(dataset, pargs.mini_batch_size)[k],
                        translator.device)
    /\ log' = IF k = 1 THEN Append(log, "eval") ELSE log
    /\ pc' = "generate"
    /\ UNCHANGED <<cacheVars, call, translator, pargs, text, dataset, k,
                   outputs, translations, genCalls, result, returned>>

\* `for batch in dataloader`: the next batch, self.model.eval(), the batch
\* moved to the device.
PredictEval ==
    /\ pc = "loop"
    /\ k <= Len(DataLoader(dataset, pargs.mini_batch_size))
    /\ batch' = BatchTo(DataLoader(dataset, pargs.mini_batch_size)[k],
                        translator.device)
    /\ log' = Append(log, "eval")
    /\ pc' = "generate"
    /\ UNCHANGED <<cacheVars, call, translator, pargs, text, dataset, k,
                   outputs, translations, genCalls, result, returned>>

\* inputs = {...}; outputs = self.model.generate(inputs["input_ids"], ...)
PredictGenerate ==
    /\ pc = "generate"
    /\ LET inputs == Inputs(batch)
       IN  /\ outputs' = Generate(ModelClass(translator.name), inputs.input_ids,
                                  GenerateKwargs(pargs))
           /\ genCalls' = Append(genCalls, GenerateCall(translator, inputs, pargs))
    /\ log' = Append(log, "generate")
    /\ pc' = "decode"
    /\ UNCHANGED <<cacheVars, call, translator, pargs, text, dataset, k,
                   batch, translations, result, returned>>

\* for o in outputs: translations.append(decode(o)); then the next batch.
PredictDecode ==
    /\ pc = "decode"
    /\ translations' = AppendTranslations(translations, DecodeOutputs(outputs))
    /\ k' = k + 1
    /\ log' = Append(log, "decode")
    /\ pc' = "loop"
    /\ UNCHANGED <<cacheVars, call, translator, pargs, text, dataset, batch,
                   outputs, genCalls, result, returned>>

\* The dataloader is exhausted: return translations.
PredictReturn ==
    /\ pc = "loop"
    /\ k > Len(DataLoader(dataset, pargs.mini_batch_size))
    /\ result' = translations
    /\ pc' = "done"
    /\ UNCHANGED <<cacheVars, call, translator, pargs, text, dataset, k,
                   batch, outputs, translations, genCalls, log, returned>>

\* return translator.predict(...)
TranslateReturn ==
    /\ pc = "done"
    /\ returned' = result
    /\ pc' = "returned"
    /\ UNCHANGED <<cacheVars, call, translator, pargs, text, dataset, k,
                   batch, outputs, translations, genCalls, log, result>>

\* The caller has the return value or the exception; the call's frame is gone.
Release ==
    /\ pc \in {"returned", "raised"}
    /\ pc' = "idle"
    /\ call' = None /\ translator' = None /\ pargs' = None
    /\ text' = <<>> /\ dataset' = <<>> /\ k' = 0 /\ batch' = <<>>
    /\ outputs' = <<>> /\ translations' = <<>> /\ genCalls' = <<>>
    /\ log' = <<>> /\ result' = <<>> /\ returned' = <<>>
    /\ UNCHANGED cacheVars

Next ==
    \/ \E txt \in TextInputs, n \in ModelNames, p \in Prefixes,
          b \in BatchSizes, ga \in GenArgSets : translate(txt, n, p, b, ga)
    \/ PredictTokenize
    \/ PredictEval
    \/ PredictGenerate
    \/ PredictDecode
    \/ PredictReturn
    \/ TranslateReturn
    \/ Release

Spec == Init /\ [][Next]_vars

\* ------------------------------------------------------------ properties
InPredict == pc \in {"loop", "generate", "decode", "done", "returned"}

\* The texts of the running predict call as a list, before the prefix.
RawTexts == IF pargs.text.kind = "str" THEN <<pargs.text.val>> ELSE pargs.text.val

\* The steps of the running call after the load, if there was one.
Steps == IF log # <<>> /\ log[1] = "load" THEN Tail(log) ELSE log

Count(seq, e) == Cardinality({i \in DOMAIN seq : seq[i] = e})

TypeOK ==
    /\ cuda \in BOOLEAN
    /\ DOMAIN translators \subseteq ModelNames
    /\ nextId \in 1..(MaxCalls + 1)
    /\ calls \in 0..MaxCalls
    /\ \A n \in ModelNames : named[n] \in 0..MaxCalls /\ loadCalls[n] \in 0..named[n]
                             /\ loadFails[n] \in 0..loadCalls[n]
    /\ pc \in {"idle", "predict", "loop", "generate", "decode", "done",
               "returned", "raised"}
    /\ pc = "idle" => NoFrame

\* The step machine and the function predict agree on every finished call.
StepsAgreeWithPredict ==
    pc \in {"done", "returned"} =>
        /\ result = predict(translator, pargs).translations
        /\ genCalls = predict(translator, pargs).calls

\* C1: for every model name none of whose loads raised, load has been
\* invoked once if some translate call has named it and never otherwise,
\* however many translate calls have named it.
C1_LoadOncePerName ==
    \A n \in ModelNames :
        loadFails[n] = 0 => loadCalls[n] = (IF named[n] > 0 THEN 1 ELSE 0)

C1_Witness ==
    \E n \in ModelNames :
        named[n] >= 2 /\ loadCalls[n] = 1 /\ loadFails[n] = 0 /\ pc = "returned"

\* C2: a step never changes or removes a cache entry that holds a wrapper,
\* a translate call naming it runs predict on that wrapper, and every
\* generate call of a running predict is made on the wrapper cached under
\* the name of the call.
C2_CacheEntryKept ==
    [][ /\ \A n \in DOMAIN translators :
              Truthy(translators[n]) =>
                  /\ n \in DOMAIN translators'
                  /\ translators'[n] = translators[n]
                  /\ named'[n] # named[n] =>
                         pc' = "predict" /\ translator' = translators[n]
        /\ pc' \notin {"idle", "raised"} =>
              /\ translator' = translators'[call'.model_name_or_path]
              /\ \A i \in DOMAIN genCalls' : genCalls'[i].model = translator'.id
      ]_vars

C2_Witness ==
    /\ pc = "returned"
    /\ log[1] # "load"
    /\ Len(genCalls) >= 1
    /\ calls = 3
    /\ \A n \in ModelNames : n \in DOMAIN translators /\ Truthy(translators[n])

\* C3: a new EasyTranslator has loaded nothing; load is invoked for a name
\* only by the step that starts a translate call with that name, before
\* any step of its predict; and a wrapper in the cache was loaded from the
\* name it is cached under.
C3_LazyLoad ==
    /\ (\A n \in ModelNames : loadCalls[n] = 0) /\ translators = EmptyDict
    /\ [][ /\ \A n \in ModelNames :
                 loadCalls'[n] # loadCalls[n] =>
                     /\ pc = "idle"
                     /\ pc' \in {"predict", "raised"}
                     /\ call'.model_name_or_path = n
                     /\ loadCalls'[n] = loadCalls[n] + 1
                     /\ log' = <<"load">>
                     /\ genCalls' = <<>>
           /\ \A n \in DOMAIN translators' :
                 Truthy(translators'[n]) => translators'[n].name = n
         ]_vars

C3_Witness ==
    /\ pc = "predict"
    /\ log = <<"load">>
    /\ call.model_name_or_path = "bart-large"
    /\ loadCalls["bart-large"] = 1
    /\ "t5-small" \in DOMAIN translators /\ Truthy(translators["t5-small"])

\* C4: predict returns one string per input text, the i-th being the
\* decoding of what generate produces for the tokenized i-th text, for
\* every batch size.
C4_OneTranslationPerText ==
    pc = "done" =>
        /\ Len(result) = Len(RawTexts)
        /\ Len(result) = Len(text)
        /\ \A i \in 1..Len(text) :
              result[i] = Decode(GenerateRow(ModelClass(translator.name),
                                             EncodeRow(text[i]),
                                             pargs.max_length))

C4_Witness ==
    /\ pc = "done"
    /\ Len(result) = 3
    /\ pargs.mini_batch_size = 2
    /\ result[1] # result[3]

\* C5: with a T5 model every text is tokenized as t5_prefix, ": ", text;
\* with any other model the texts are tokenized as given and the result is
\* what the texts alone determine.
C5_PrefixOnlyForT5 ==
    InPredict =>
        IF ModelClass(translator.name) = "T5ForConditionalGeneration"
        THEN /\ text = [i \in DOMAIN RawTexts |->
                           pargs.t5_prefix \o <<58, 32>> \o RawTexts[i]]
             /\ dataset[1].rows = [i \in DOMAIN RawTexts |->
                   EncodeRow(pargs.t5_prefix \o <<58, 32>> \o RawTexts[i])]
        ELSE /\ text = RawTexts
             /\ dataset[1].rows = [i \in DOMAIN RawTexts |-> EncodeRow(RawTexts[i])]
             /\ pc = "done" =>
                   result = [i \in DOMAIN RawTexts |->
                       Decode(GenerateRow(ModelClass(translator.name),
                                          EncodeRow(RawTexts[i]),
                                          pargs.max_length))]

C5_Witness ==
    /\ pc = "done"
    /\ ModelClass(translator.name) = "T5ForConditionalGeneration"
    /\ Len(text) = 2
    /\ text[1] = pargs.t5_prefix \o <<58, 32>> \o <<98, 99>>

\* C6: a predict call on a string s makes the generate calls and returns
\* the list that predict on the one-element list [s] makes and returns.
C6_StrAsOneElementList ==
    (pc = "done" /\ pargs.text.kind = "str") =>
        LET onList == predict(translator,
                          [pargs EXCEPT !.text = [kind |-> "list",
                                                  val |-> <<pargs.text.val>>]])
        IN  /\ result = onList.translations
            /\ genCalls = onList.calls
            /\ Len(result) = 1

C6_Witness ==
    /\ pc = "done"
    /\ pargs.text.kind = "str"
    /\ Len(pargs.text.val) = 2
    /\ Len(result) = 1

\* C7: predict runs on the wrapper cached under the name translate was
\* given, with every argument translate received, and translate returns
\* what predict on that wrapper returns for those arguments.
C7_TranslateIsPredict ==
    /\ pc \in {"predict", "loop", "generate", "decode", "done", "returned"} =>
          /\ translator = translators[call.model_name_or_path]
          /\ Truthy(translator)
          /\ pargs.text = call.text
          /\ pargs.t5_prefix = call.t5_prefix
          /\ pargs.mini_batch_size = call.mini_batch_size
          /\ pargs.num_beams = call.num_beams
          /\ pargs.min_length = call.min_length
          /\ pargs.max_length = call.max_length
          /\ pargs.early_stopping = call.early_stopping
          /\ pargs.kwargs = call.kwargs
          /\ \A i \in DOMAIN genCalls :
                genCalls[i].gen_kwargs =
                    [num_beams |-> call.num_beams, min_length |-> call.min_length,
                     max_length |-> call.max_length,
                     early_stopping |-> call.early_stopping,
                     kwargs |-> call.kwargs]
    /\ pc = "returned" =>
          /\ returned = result
          /\ returned =
               predict(translators[call.model_name_or_path],
                       [text |-> call.text, t5_prefix |-> call.t5_prefix,
                        mini_batch_size |-> call.mini_batch_size,
                        num_beams |-> call.num_beams,
                        min_length |-> call.min_length,
                        max_length |-> call.max_length,
                        early_stopping |-> call.early_stopping,
                        kwargs |-> call.kwargs]).translations

C7_Witness ==
    /\ pc = "returned"
    /\ call.num_beams = 4
    /\ call.kwargs # {}
    /\ Len(returned) >= 2

\* C8: predict on n texts with batch size b calls generate ceil(n / b)
\* times; the j-th call gets rows (j-1)b+1 .. min(jb, n) of the tokenized
\* inputs, so every batch but the last has b rows, the last has 1..b, and
\* the batches in order are the input rows in order.
C8_BatchesAreConsecutiveSlices ==
    pc = "done" =>
        LET n == Len(RawTexts)
            b == pargs.mini_batch_size
            c == Len(genCalls)
            rows(j) == genCalls[j].input_ids.rows
        IN  /\ DatasetLen(dataset) = n
            /\ c * b >= n /\ (c - 1) * b < n
            /\ \A j \in 1..c :
                  /\ rows(j) = SubSeq(dataset[1].rows, (j - 1) * b + 1,
                                      IF j * b < n THEN j * b ELSE n)
                  /\ j < c => Len(rows(j)) = b
                  /\ j = c => Len(rows(j)) \in 1..b
            /\ Flatten([j \in 1..c |-> rows(j)]) = dataset[1].rows

C8_Witness ==
    /\ pc = "done"
    /\ Len(RawTexts) = 3
    /\ pargs.mini_batch_size = 2
    /\ Len(genCalls) = 2
    /\ Len(genCalls[2].input_ids.rows) = 1

\* C9: the steps of a predict call are one tokenize of all the texts, then
\* for each batch eval, generate, decode in that order; the translations
\* of a batch are appended before the next batch's generate.
C9_StepOrder ==
    /\ \A i \in DOMAIN Steps :
          /\ (Steps[i] = "tokenize") <=> (i = 1)
          /\ Steps[i] = "generate" => i > 1 /\ Steps[i - 1] = "eval"
          /\ Steps[i] = "decode" => i > 1 /\ Steps[i - 1] = "generate"
          /\ Steps[i] = "eval" => i > 1 /\ Steps[i - 1] \in {"tokenize", "decode"}
    /\ InPredict =>
          LET n == Len(RawTexts)
              b == pargs.mini_batch_size
              g == Count(Steps, "generate")
              d == Count(Steps, "decode")
          IN  /\ DatasetLen(dataset) = n
              /\ Len(genCalls) = g
              /\ Count(Steps, "eval") - g = (IF pc = "generate" THEN 1 ELSE 0)
              /\ g - d = (IF pc = "decode" THEN 1 ELSE 0)
              /\ Len(translations) = (IF d * b < n THEN d * b ELSE n)
              /\ pc \in {"done", "returned"} => Len(translations) = n

C9_Witness ==
    /\ pc = "done"
    /\ Steps = <<"tokenize", "eval", "generate", "decode",
                 "eval", "generate", "decode">>
    /\ Len(translations) = 3

====
